---- MODULE Spec2Model ----
(***************************************************************************)
(* Model of password_checker.py: the entropy estimate, the pattern         *)
(* penalty, the dictionary scan, the feedback list and the strength label. *)
(*                                                                         *)
(* A string is a sequence of code points (ord), so that the sequential     *)
(* rule's arithmetic on character codes and str.lower() are computed, not  *)
(* assumed.  A float number of bits is an integer number of micro-bits:    *)
(* the penalties and thresholds are whole bits, and log2 of a pool size is *)
(* its value rounded down to 10^-6 bit (log2(32) = 5 is exact).            *)
(***************************************************************************)
EXTENDS Integers, Sequences, FiniteSets, TLC

VARIABLES
    COMMON_PASSWORDS,   \* module global, line 23: set of strings
    KEYBOARD_PATTERNS,  \* module global, line 26: list of strings
    pc,                 \* per caller: position inside evaluate_password_strength
    password,           \* per caller: argument
    dictionary,         \* per caller: argument (None or a set)
    pool,               \* per caller: local of calculate_base_entropy
    base_entropy,       \* per caller: local, line 126
    penalty,            \* per caller: local of the penalty function, then line 127
    feedback,           \* per caller: local list of get_password_feedback
    result,             \* per caller: <<the returned dict>>, or <<>> before
    found               \* per caller: what check_dictionary_words returned

vars == <<COMMON_PASSWORDS, KEYBOARD_PATTERNS, pc, password, dictionary, pool,
          base_entropy, penalty, feedback, result, found>>

globals == <<COMMON_PASSWORDS, KEYBOARD_PATTERNS>>

-----------------------------------------------------------------------------
(* Bounds *)

\* number of callers that may have a call of evaluate_password_strength open
NumCallers == 2

\* a password of the main specification is at most this many fragments long
MaxParts == 2

Callers == 1..NumCallers

-----------------------------------------------------------------------------
(* Strings *)

\* a whole number of bits, in micro-bits
Bits(n) == n * 1000000

\* str.lower() of one character: ASCII A-Z and the Latin-1 capitals
lower_char(c) ==
    IF c \in 65..90 THEN c + 32
    ELSE IF c \in (192..222) \ {215} THEN c + 32
    ELSE c

\* str.lower()
lower(s) == [i \in 1..Len(s) |-> lower_char(s[i])]

\* the characters str.strip() removes (str.isspace, up to Latin-1)
WHITESPACE == {9, 10, 11, 12, 13, 28, 29, 30, 31, 32, 133, 160}

RECURSIVE lstrip(_)
lstrip(s) ==
    IF s # <<>> /\ Head(s) \in WHITESPACE THEN lstrip(Tail(s)) ELSE s

RECURSIVE rstrip(_)
rstrip(s) ==
    IF s # <<>> /\ s[Len(s)] \in WHITESPACE
    THEN rstrip(SubSeq(s, 1, Len(s) - 1))
    ELSE s

\* str.strip()
strip(s) == rstrip(lstrip(s))

\* Python's s[i:j] for 0 <= i <= j <= len(s)
slice(s, i, j) == SubSeq(s, i + 1, j)

\* Python's `pattern in text` for strings
contains(text, pattern) ==
    \E i \in 0..(Len(text) - Len(pattern)) :
        slice(text, i, i + Len(pattern)) = pattern

-----------------------------------------------------------------------------
(* Module globals *)

\* A word list on disk: it exists or not, and holds lines (each with the
\* line terminator the file iterator leaves on it).
NoFile == [exists |-> FALSE, lines |-> <<>>]

\* "password\n", " Admin \n", "\n", "ABC\n", "   \n", "QWERTY"
RockYou ==
    [exists |-> TRUE,
     lines |-> << <<112, 97, 115, 115, 119, 111, 114, 100, 10>>,
                  <<32, 65, 100, 109, 105, 110, 32, 10>>,
                  <<10>>,
                  <<65, 66, 67, 10>>,
                  <<32, 32, 32, 10>>,
                  <<81, 87, 69, 82, 84, 89>> >>]

Files == {NoFile, RockYou}

\* lines 5-16: the lowercased stripped non-blank lines, or set() when the
\* file is not found
load_common_passwords(file) ==
    IF file.exists
    THEN {lower(strip(file.lines[k])) :
              k \in {n \in 1..Len(file.lines) : strip(file.lines[n]) # <<>>}}
    ELSE {}

\* line 26: "qwerty", "asdfgh", "zxcvbn", "12345", "password", "admin"
KEYBOARD_PATTERNS_LIST ==
    << <<113, 119, 101, 114, 116, 121>>,
       <<97, 115, 100, 102, 103, 104>>,
       <<122, 120, 99, 118, 98, 110>>,
       <<49, 50, 51, 52, 53>>,
       <<112, 97, 115, 115, 119, 111, 114, 100>>,
       <<97, 100, 109, 105, 110>> >>

-----------------------------------------------------------------------------
(* Character classes of the regular expressions *)

\* [a-z]
LOWERCASE == 97..122

\* [A-Z]
UPPERCASE == 65..90

\* \d on a str pattern: every Unicode decimal digit.  Carried here: ASCII,
\* Arabic-Indic, Extended Arabic-Indic and Devanagari digits.
DIGITS == (48..57) \cup (1632..1641) \cup (1776..1785) \cup (2406..2415)

\* [!@#$%^&*(),.?":{}|<>]
PUNCTUATION ==
    {33, 64, 35, 36, 37, 94, 38, 42, 40, 41, 44, 46, 63, 34, 58, 123, 125,
     124, 60, 62}

\* re.search(r'[class]', s) is not None
re_search(class, s) == \E i \in 1..Len(s) : s[i] \in class

\* re.search(r'(.)\1{2,}', s): `.` matches any character except a newline
re_search_repeat(s) ==
    \E i \in 1..(Len(s) - 2) :
        s[i] # 10 /\ s[i + 1] = s[i] /\ s[i + 2] = s[i]

-----------------------------------------------------------------------------
(* calculate_base_entropy, lines 28-43 *)

\* lines 33-41: the pool grows by a fixed amount for each class present
pool_size(s) ==
    (IF re_search(LOWERCASE, s) THEN 26 ELSE 0)
    + (IF re_search(UPPERCASE, s) THEN 26 ELSE 0)
    + (IF re_search(DIGITS, s) THEN 10 ELSE 0)
    + (IF re_search(PUNCTUATION, s) THEN 22 ELSE 0)

\* math.log2 on the pool sizes lines 33-41 can produce, in micro-bits;
\* math.log2(0) raises ValueError
math_log2(x) ==
    IF x <= 0 THEN [raised |-> "ValueError", value |-> 0]
    ELSE [raised |-> "",
          value |-> CASE x = 10 -> 3321928
                      [] x = 22 -> 4459431
                      [] x = 26 -> 4700439
                      [] x = 32 -> 5000000
                      [] x = 36 -> 5169925
                      [] x = 48 -> 5584962
                      [] x = 52 -> 5700439
                      [] x = 58 -> 5857980
                      [] x = 62 -> 5954196
                      [] x = 74 -> 6209453
                      [] x = 84 -> 6392317]

\* the product without the `if pool` guard
calculate_base_entropy_unguarded(s) ==
    [raised |-> math_log2(pool_size(s)).raised,
     value |-> Len(s) * math_log2(pool_size(s)).value]

\* line 43: len(password) * math.log2(pool) if pool else 0.0
calculate_base_entropy(s) ==
    IF pool_size(s) # 0
    THEN [raised |-> math_log2(pool_size(s)).raised,
          value |-> Len(s) * math_log2(pool_size(s)).value]
    ELSE [raised |-> "", value |-> 0]

-----------------------------------------------------------------------------
(* penalty_for_repeated_and_sequential_patterns, lines 45-68 *)

\* lines 53-54
repeat_penalty(s) == IF re_search_repeat(s) THEN Bits(10) ELSE 0

\* the triplet test without its descending branch
sequential_at_ascending_only(s, i) ==
    IF s[i + 2] - s[i + 1] = 1 /\ s[i + 3] - s[i + 2] = 1 THEN Bits(5)
    ELSE 0

\* lines 58-61, for the 0-based index i: the triplet rises by one twice, or
\* falls by one twice
sequential_at(s, i) ==
    IF s[i + 2] - s[i + 1] = 1 /\ s[i + 3] - s[i + 2] = 1 THEN Bits(5)
    ELSE IF s[i + 1] - s[i + 2] = 1 /\ s[i + 2] - s[i + 3] = 1 THEN Bits(5)
    ELSE 0

\* line 57: for i in range(len(password) - 2), from index i on
RECURSIVE sequential_loop(_, _)
sequential_loop(s, i) ==
    IF i >= Len(s) - 2 THEN 0
    ELSE sequential_at(s, i) + sequential_loop(s, i + 1)

sequential_penalty(s) == sequential_loop(s, 0)

\* lines 64-66: for pattern in KEYBOARD_PATTERNS, from list position k on
RECURSIVE keyboard_loop(_, _, _)
keyboard_loop(s, patterns, k) ==
    IF k > Len(patterns) THEN 0
    ELSE (IF contains(lower(s), patterns[k]) THEN Bits(10) ELSE 0)
         + keyboard_loop(s, patterns, k + 1)

\* the patterns looked for in the password as typed, not lowercased
keyboard_penalty_case_sensitive(s, patterns) ==
    Bits(10) * Cardinality({k \in 1..Len(patterns) : contains(s, patterns[k])})

keyboard_penalty(s, patterns) == keyboard_loop(s, patterns, 1)

-----------------------------------------------------------------------------
(* check_dictionary_words, lines 70-84 *)

\* the dictionary argument: None, or a set of strings
None == [supplied |-> FALSE, words |-> {}]

SetOf(words) == [supplied |-> TRUE, words |-> words]

\* Python truth value of the argument: None and the empty set are false
truthy(d) == d.supplied /\ d.words # {}

\* the scan with substrings of length 3 let in
check_dictionary_words_from_3(s, words) ==
    LET lower_pwd == lower(s) IN
        \/ lower_pwd \in words
        \/ \E i \in 0..(Len(lower_pwd) - 1) :
               \E j \in (i + 3)..Len(lower_pwd) :
                   slice(lower_pwd, i, j) \in words

\* lines 75-84, on a set of words
check_dictionary_words(s, words) ==
    LET lower_pwd == lower(s) IN
        \/ lower_pwd \in words
        \/ \E i \in 0..(Len(lower_pwd) - 1) :
               \E j \in (i + 4)..Len(lower_pwd) :
                   slice(lower_pwd, i, j) \in words

-----------------------------------------------------------------------------
(* get_password_feedback, lines 86-119 *)

TOO_COMMON == "Password is too common."
TOO_SHORT == "Password is too short; consider at least 8 characters."
DICTIONARY_WORDS ==
    "Password contains dictionary words which makes it easier to guess."
PATTERNS ==
    "Password contains repeated or sequential patterns which reduce its strength."
LONGER == "Consider using a longer password for increased security."
ADD_UPPERCASE == "Adding uppercase letters can improve strength."
ADD_NUMBERS == "Incorporating numbers can boost strength."
ADD_SPECIAL ==
    "Using special characters can further strengthen your password."

\* feedback.append(text) under `if cond`
append_if(cond, text) == IF cond THEN <<text>> ELSE <<>>

\* the pattern message appended before the dictionary message
get_password_feedback_reordered(s, d, pen, common) ==
    append_if(lower(s) \in common, TOO_COMMON)
    \o append_if(Len(s) < 8, TOO_SHORT)
    \o append_if(pen > 0, PATTERNS)
    \o append_if(truthy(d) /\ check_dictionary_words(s, d.words),
                 DICTIONARY_WORDS)
    \o append_if(Len(s) < 12, LONGER)
    \o append_if(~re_search(UPPERCASE, s), ADD_UPPERCASE)
    \o append_if(~re_search(DIGITS, s), ADD_NUMBERS)
    \o append_if(~re_search(PUNCTUATION, s), ADD_SPECIAL)

\* lines 95-117, given the penalty of line 92
get_password_feedback(s, d, pen, common) ==
    append_if(lower(s) \in common, TOO_COMMON)
    \o append_if(Len(s) < 8, TOO_SHORT)
    \o append_if(truthy(d) /\ check_dictionary_words(s, d.words),
                 DICTIONARY_WORDS)
    \o append_if(pen > 0, PATTERNS)
    \o append_if(Len(s) < 12, LONGER)
    \o append_if(~re_search(UPPERCASE, s), ADD_UPPERCASE)
    \o append_if(~re_search(DIGITS, s), ADD_NUMBERS)
    \o append_if(~re_search(PUNCTUATION, s), ADD_SPECIAL)

-----------------------------------------------------------------------------
(* evaluate_password_strength, lines 121-150 *)

\* the difference without the floor at zero
effective_entropy_unclamped(base, pen) == base - pen

\* line 128: max(base_entropy - penalty, 0)
effective_entropy(base, pen) == IF base - pen > 0 THEN base - pen ELSE 0

\* the third threshold closed on the wrong side
strength_closed_at_60(effective) ==
    IF effective < Bits(28) THEN "Very Weak"
    ELSE IF effective < Bits(36) THEN "Weak"
    ELSE IF effective <= Bits(60) THEN "Moderate"
    ELSE IF effective < Bits(128) THEN "Strong"
    ELSE "Very Strong"

\* lines 131-140
strength(effective) ==
    IF effective < Bits(28) THEN "Very Weak"
    ELSE IF effective < Bits(36) THEN "Weak"
    ELSE IF effective < Bits(60) THEN "Moderate"
    ELSE IF effective < Bits(128) THEN "Strong"
    ELSE "Very Strong"

\* lines 142-150
result_record(s, base, pen, fb) ==
    [password |-> s,
     length |-> Len(s),
     base_entropy |-> base,
     penalty |-> pen,
     effective_entropy |-> effective_entropy(base, pen),
     strength |-> strength(effective_entropy(base, pen)),
     feedback |-> fb]

-----------------------------------------------------------------------------
(* Inputs *)

\* the pieces the passwords of the main specification are made of
Fragments ==
    { <<97>>,                                            \* "a"
      <<97, 97, 97>>,                                    \* "aaa"
      <<98, 98, 98>>,                                    \* "bbb"
      <<97, 98, 99>>,                                    \* "abc"
      <<100, 101, 102>>,                                 \* "def"
      <<99, 98, 97>>,                                    \* "cba"
      <<113, 119, 101, 114, 116, 121>>,                  \* "qwerty"
      <<81, 119, 69, 114, 84, 121>>,                     \* "QwErTy"
      <<97, 115, 100, 102, 103, 104>>,                   \* "asdfgh"
      <<122, 120, 99, 118, 98, 110>>,                    \* "zxcvbn"
      <<49, 50, 51, 52, 53>>,                            \* "12345"
      <<112, 97, 115, 115, 119, 111, 114, 100>>,         \* "password"
      <<65, 68, 77, 73, 78>>,                            \* "ADMIN"
      <<49, 33, 49, 33, 49, 33>>,                        \* "1!1!1!"
      <<84, 114, 48, 117, 98, 52, 100, 111, 114, 38, 51>>, \* "Tr0ub4dor&3"
      <<10, 10, 10>>,                                    \* three newlines
      <<1636>>,                                          \* Arabic-Indic four
      <<95>> }                                           \* "_"

RECURSIVE PasswordsOf(_)
PasswordsOf(k) ==
    IF k = 0 THEN {<<>>}
    ELSE {p \o f : p \in PasswordsOf(k - 1), f \in Fragments}

Passwords == UNION {PasswordsOf(k) : k \in 0..MaxParts}

\* absent, empty, {"abc", "admin", "pass", "QwEr"}, {""}
Dictionaries ==
    { None,
      SetOf({}),
      SetOf({ <<97, 98, 99>>, <<97, 100, 109, 105, 110>>,
              <<112, 97, 115, 115>>, <<81, 119, 69, 114>> }),
      SetOf({ <<>> }) }

\* the inputs of the specification of repeated calls:
\* "admin" and "Tr0ub4dor&3"; absent and {"admin"}
ProbePasswords ==
    { <<97, 100, 109, 105, 110>>,
      <<84, 114, 48, 117, 98, 52, 100, 111, 114, 38, 51>> }

ProbeDictionaries == { None, SetOf({ <<97, 100, 109, 105, 110>> }) }

-----------------------------------------------------------------------------
(* The state machine: one call of evaluate_password_strength per caller *)

Init ==
    /\ \E file \in Files : COMMON_PASSWORDS = load_common_passwords(file)
    /\ KEYBOARD_PATTERNS = KEYBOARD_PATTERNS_LIST
    /\ pc = [c \in Callers |-> "idle"]
    /\ password = [c \in Callers |-> <<>>]
    /\ dictionary = [c \in Callers |-> None]
    /\ pool = [c \in Callers |-> 0]
    /\ base_entropy = [c \in Callers |-> 0]
    /\ penalty = [c \in Callers |-> 0]
    /\ feedback = [c \in Callers |-> <<>>]
    /\ result = [c \in Callers |-> <<>>]
    /\ found = [c \in Callers |-> FALSE]

\* caller c enters evaluate_password_strength(p, d), line 121
Call(c, p, d) ==
    /\ pc[c] \in {"idle", "done"}
    /\ pc' = [pc EXCEPT ![c] = "base"]
    /\ password' = [password EXCEPT ![c] = p]
    /\ dictionary' = [dictionary EXCEPT ![c] = d]
    /\ pool' = [pool EXCEPT ![c] = 0]
    /\ base_entropy' = [base_entropy EXCEPT ![c] = 0]
    /\ penalty' = [penalty EXCEPT ![c] = 0]
    /\ feedback' = [feedback EXCEPT ![c] = <<>>]
    /\ result' = [result EXCEPT ![c] = <<>>]
    /\ UNCHANGED <<globals, found>>

\* caller c calls check_dictionary_words(p, words) itself, on a set as the
\* signature of line 70 asks
CheckDictionaryWords(c, p, words) ==
    /\ pc[c] = "idle"
    /\ pc' = [pc EXCEPT ![c] = "scanned"]
    /\ password' = [password EXCEPT ![c] = p]
    /\ dictionary' = [dictionary EXCEPT ![c] = SetOf(words)]
    /\ found' = [found EXCEPT ![c] = check_dictionary_words(p, words)]
    /\ UNCHANGED <<globals, pool, base_entropy, penalty, feedback, result>>

\* line 126: base_entropy = calculate_base_entropy(password)
CalculateBaseEntropy(c) ==
    /\ pc[c] = "base"
    /\ pool' = [pool EXCEPT ![c] = pool_size(password[c])]
    /\ IF calculate_base_entropy(password[c]).raised = ""
       THEN /\ base_entropy' =
                   [base_entropy EXCEPT
                        ![c] = calculate_base_entropy(password[c]).value]
            /\ pc' = [pc EXCEPT ![c] = "repeat"]
       ELSE /\ base_entropy' = base_entropy
            /\ pc' = [pc EXCEPT ![c] = "raised"]
    /\ UNCHANGED <<globals, found, password, dictionary, penalty, feedback, result>>

\* lines 50-54, entered from line 92: the repeated-character rule
RepeatRule(c) ==
    /\ pc[c] = "repeat"
    /\ penalty' = [penalty EXCEPT ![c] = 0 + repeat_penalty(password[c])]
    /\ pc' = [pc EXCEPT ![c] = "sequential"]
    /\ UNCHANGED <<globals, found, password, dictionary, pool, base_entropy,
                   feedback, result>>

\* lines 57-61: the sequential rule
SequentialRule(c) ==
    /\ pc[c] = "sequential"
    /\ penalty' =
           [penalty EXCEPT ![c] = penalty[c] + sequential_penalty(password[c])]
    /\ pc' = [pc EXCEPT ![c] = "keyboard"]
    /\ UNCHANGED <<globals, found, password, dictionary, pool, base_entropy,
                   feedback, result>>

\* lines 64-68: the keyboard rule, and the return of the penalty
KeyboardRule(c) ==
    /\ pc[c] = "keyboard"
    /\ penalty' =
           [penalty EXCEPT
                ![c] = penalty[c]
                       + keyboard_penalty(password[c], KEYBOARD_PATTERNS)]
    /\ pc' = [pc EXCEPT ![c] = "feedback"]
    /\ UNCHANGED <<globals, found, password, dictionary, pool, base_entropy,
                   feedback, result>>

\* lines 95-119: the feedback list
GetPasswordFeedback(c) ==
    /\ pc[c] = "feedback"
    /\ feedback' =
           [feedback EXCEPT
                ![c] = get_password_feedback(password[c], dictionary[c],
                                             penalty[c], COMMON_PASSWORDS)]
    /\ pc' = [pc EXCEPT ![c] = "rate"]
    /\ UNCHANGED <<globals, found, password, dictionary, pool, base_entropy,
                   penalty, result>>

\* the rating step, remembering the evaluated password as a common one
RateAndRemember(c) ==
    /\ pc[c] = "rate"
    /\ result' =
           [result EXCEPT
                ![c] = << result_record(password[c], base_entropy[c],
                                        penalty[c], feedback[c]) >>]
    /\ pc' = [pc EXCEPT ![c] = "done"]
    /\ COMMON_PASSWORDS' = COMMON_PASSWORDS \cup {lower(password[c])}
    /\ UNCHANGED <<KEYBOARD_PATTERNS, found, password, dictionary, pool,
                   base_entropy, penalty, feedback>>

\* lines 128-150: the effective entropy, the label and the returned record
Rate(c) ==
    /\ pc[c] = "rate"
    /\ result' =
           [result EXCEPT
                ![c] = << result_record(password[c], base_entropy[c],
                                        penalty[c], feedback[c]) >>]
    /\ pc' = [pc EXCEPT ![c] = "done"]
    /\ UNCHANGED <<globals, found, password, dictionary, pool, base_entropy,
                   penalty, feedback>>

\* the steps of an open call
Step(c) ==
    \/ CalculateBaseEntropy(c)
    \/ RepeatRule(c)
    \/ SequentialRule(c)
    \/ KeyboardRule(c)
    \/ GetPasswordFeedback(c)
    \/ Rate(c)

\* The main specification: a client makes one call, of
\* evaluate_password_strength with a password and a dictionary or of
\* check_dictionary_words with a password and a set of words.
Evaluate ==
    /\ pc[1] = "idle"
    /\ \E p \in Passwords : \E d \in Dictionaries : Call(1, p, d)

Scan ==
    /\ pc[1] = "idle"
    /\ \E p \in Passwords :
           \E d \in {x \in Dictionaries : x.supplied} :
               CheckDictionaryWords(1, p, d.words)

Next ==
    \/ Evaluate
    \/ Scan
    \/ Step(1)

Spec == Init /\ [][Next]_vars

\* The specification of repeated calls: every caller calls again and again,
\* the calls interleaved step by step.
NextCalls ==
    \E c \in Callers :
        \/ \E p \in ProbePasswords : \E d \in ProbeDictionaries : Call(c, p, d)
        \/ Step(c)

SpecCalls == Init /\ [][NextCalls]_vars

-----------------------------------------------------------------------------
(* The rating of lines 128-150 as a function of its two operands: the      *)
(* specification of the label draws base_entropy and penalty from a grid   *)
(* of half bits and whole penalties, thresholds included.                  *)

\* the largest base entropy of the grid, in bits
MaxBits == 130

\* the largest penalty of the grid, in steps of 5 bits
MaxPenaltySteps == 2

InitRate ==
    /\ COMMON_PASSWORDS = load_common_passwords(NoFile)
    /\ KEYBOARD_PATTERNS = KEYBOARD_PATTERNS_LIST
    /\ pc = [c \in Callers |-> IF c = 1 THEN "rate" ELSE "idle"]
    /\ password = [c \in Callers |-> <<>>]
    /\ dictionary = [c \in Callers |-> None]
    /\ pool = [c \in Callers |-> 0]
    /\ \E h \in 0..(2 * MaxBits) :
           base_entropy = [c \in Callers |-> IF c = 1 THEN h * 500000 ELSE 0]
    /\ \E k \in 0..MaxPenaltySteps :
           penalty = [c \in Callers |-> IF c = 1 THEN Bits(5 * k) ELSE 0]
    /\ feedback = [c \in Callers |-> <<>>]
    /\ result = [c \in Callers |-> <<>>]
    /\ found = [c \in Callers |-> FALSE]

NextRate == Rate(1)

SpecRate == InitRate /\ [][NextRate]_vars

-----------------------------------------------------------------------------
(* Properties *)

\* the record caller c got back
Returned(c) == result[c][1]

Maximum(a, b) == CHOOSE m \in {a, b} : m >= a /\ m >= b

\* C1: the returned effective_entropy is max(base_entropy - penalty, 0) of
\* the base_entropy and penalty of the same record, and lies in
\* [0, base_entropy].
C1_EffectiveEntropy ==
    \A c \in Callers :
        pc[c] = "done" =>
            /\ Returned(c).effective_entropy =
                   Maximum(Returned(c).base_entropy - Returned(c).penalty, 0)
            /\ 0 <= Returned(c).effective_entropy
            /\ Returned(c).effective_entropy <= Returned(c).base_entropy

\* a password whose penalty exceeds its positive base entropy: clamped to 0
C1_Witness ==
    /\ pc[1] = "done"
    /\ Returned(1).base_entropy > 0
    /\ Returned(1).penalty > Returned(1).base_entropy
    /\ Returned(1).effective_entropy = 0

\* C2: the label is fixed by effective_entropy through the half-open
\* ranges: below 28 Very Weak, [28, 36) Weak, [36, 60) Moderate, [60, 128)
\* Strong, 128 and more Very Strong; each boundary belongs to the upper
\* category.
C2_StrengthTable ==
    \A c \in Callers :
        pc[c] = "done" =>
            LET e == Returned(c).effective_entropy
                s == Returned(c).strength
            IN  /\ (s = "Very Weak") <=> e < Bits(28)
                /\ (s = "Weak") <=> (Bits(28) <= e /\ e < Bits(36))
                /\ (s = "Moderate") <=> (Bits(36) <= e /\ e < Bits(60))
                /\ (s = "Strong") <=> (Bits(60) <= e /\ e < Bits(128))
                /\ (s = "Very Strong") <=> Bits(128) <= e
                /\ e = Bits(28) => s = "Weak"
                /\ e = Bits(36) => s = "Moderate"
                /\ e = Bits(60) => s = "Strong"
                /\ e = Bits(128) => s = "Very Strong"

\* an effective entropy of exactly 60 bits, after a penalty, rated Strong
C2_Witness ==
    /\ pc[1] = "done"
    /\ Returned(1).penalty > 0
    /\ Returned(1).effective_entropy = Bits(60)
    /\ Returned(1).strength = "Strong"

\* the fixed sequence of the messages
FEEDBACK_SEQUENCE ==
    <<TOO_COMMON, TOO_SHORT, DICTIONARY_WORDS, PATTERNS, LONGER,
      ADD_UPPERCASE, ADD_NUMBERS, ADD_SPECIAL>>

\* the condition under which caller c's call keeps message m
Triggered(c, m) ==
    CASE m = TOO_COMMON -> lower(password[c]) \in COMMON_PASSWORDS
      [] m = TOO_SHORT -> Len(password[c]) < 8
      [] m = DICTIONARY_WORDS ->
             /\ dictionary[c].supplied
             /\ check_dictionary_words(password[c], dictionary[c].words)
      [] m = PATTERNS -> penalty[c] > 0
      [] m = LONGER -> Len(password[c]) < 12
      [] m = ADD_UPPERCASE -> \A i \in 1..Len(password[c]) :
                                  password[c][i] \notin UPPERCASE
      [] m = ADD_NUMBERS -> \A i \in 1..Len(password[c]) :
                                password[c][i] \notin DIGITS
      [] m = ADD_SPECIAL -> \A i \in 1..Len(password[c]) :
                                password[c][i] \notin PUNCTUATION

\* two strings equal up to the case of their ASCII letters
SameLetter(x, y) ==
    \/ x = y
    \/ x \in 65..90 /\ y = x + 32
    \/ y \in 65..90 /\ x = y + 32

EqualIgnoringCase(a, b) ==
    /\ Len(a) = Len(b)
    /\ \A i \in 1..Len(a) : SameLetter(a[i], b[i])

\* C3: the feedback list is the fixed sequence of eight messages with
\* exactly the triggered ones kept, in order and at most once each; a
\* password equal, case ignored, to a common password gets the too-common
\* message first.
C3_FeedbackSequence ==
    \A c \in Callers :
        pc[c] \in {"rate", "done"} =>
            /\ feedback[c] =
                   SelectSeq(FEEDBACK_SEQUENCE, LAMBDA m : Triggered(c, m))
            /\ (\E e \in COMMON_PASSWORDS :
                    EqualIgnoringCase(password[c], e))
                   => (feedback[c] # <<>> /\ feedback[c][1] = TOO_COMMON)
            /\ pc[c] = "done" => Returned(c).feedback = feedback[c]

\* a common password in another letter case with four more checks firing
C3_Witness ==
    /\ pc[1] = "done"
    /\ password[1] \notin COMMON_PASSWORDS
    /\ Returned(1).feedback =
           <<TOO_COMMON, TOO_SHORT, DICTIONARY_WORDS, PATTERNS, LONGER,
             ADD_NUMBERS, ADD_SPECIAL>>

\* every character lies outside the four recognized classes
EmptyPool(s) ==
    \A i \in 1..Len(s) :
        s[i] \notin (LOWERCASE \cup UPPERCASE \cup DIGITS \cup PUNCTUATION)

RESULT_KEYS ==
    {"password", "length", "base_entropy", "penalty", "effective_entropy",
     "strength", "feedback"}

\* the feedback the claim gives the empty string
EMPTY_STRING_FEEDBACK ==
    <<TOO_SHORT, LONGER, ADD_UPPERCASE, ADD_NUMBERS, ADD_SPECIAL>>

\* no call raises, every return is a complete record, and an empty pool
\* gives base entropy 0, effective entropy 0 and Very Weak
NoErrorAndEmptyPool(c) ==
    /\ pc[c] # "raised"
    /\ pc[c] = "done" =>
           /\ DOMAIN Returned(c) = RESULT_KEYS
           /\ Returned(c).password = password[c]
           /\ Returned(c).length = Len(password[c])
           /\ EmptyPool(password[c]) =>
                  /\ Returned(c).base_entropy = 0
                  /\ Returned(c).effective_entropy = 0
                  /\ Returned(c).strength = "Very Weak"

\* C4 as stated: no error, a complete record, the empty-pool values, and
\* for the empty string the feedback too short, longer, uppercase, numbers,
\* special characters, whatever the dictionary.
C4_AsStated ==
    \A c \in Callers :
        /\ NoErrorAndEmptyPool(c)
        /\ (pc[c] = "done" /\ password[c] = <<>>)
               => Returned(c).feedback = EMPTY_STRING_FEEDBACK

\* C4 amended: the same, the empty string's feedback being those five
\* messages when the dictionary is absent or does not hold the empty
\* string, and holding the dictionary-words message after the too-short
\* one when the dictionary holds the empty string.
C4_EmptyPool ==
    \A c \in Callers :
        /\ NoErrorAndEmptyPool(c)
        /\ (pc[c] = "done" /\ password[c] = <<>>)
               => Returned(c).feedback =
                      IF dictionary[c].supplied /\ <<>> \in dictionary[c].words
                      THEN <<TOO_SHORT, DICTIONARY_WORDS, LONGER,
                             ADD_UPPERCASE, ADD_NUMBERS, ADD_SPECIAL>>
                      ELSE EMPTY_STRING_FEEDBACK

\* the empty string, evaluated with a dictionary of words
C4_Witness ==
    /\ pc[1] = "done"
    /\ password[1] = <<>>
    /\ dictionary[1].supplied
    /\ dictionary[1].words # {}
    /\ Returned(1).base_entropy = 0
    /\ Returned(1).strength = "Very Weak"
    /\ Returned(1).feedback = EMPTY_STRING_FEEDBACK

\* C5: no step of any call changes the common-password set, the
\* keyboard-pattern list or the dictionary of an open call, and two calls
\* with the same password and dictionary return the same record, whatever
\* calls ran in between or beside them.
C5_ReadOnlyRepeatable ==
    /\ [][/\ COMMON_PASSWORDS' = COMMON_PASSWORDS
          /\ KEYBOARD_PATTERNS' = KEYBOARD_PATTERNS
          /\ \A c \in Callers :
                 pc[c] \notin {"idle", "done"}
                     => dictionary'[c] = dictionary[c]]_vars
    /\ [](\A c, d \in Callers :
              (/\ pc[c] = "done"
               /\ pc[d] = "done"
               /\ password[c] = password[d]
               /\ dictionary[c] = dictionary[d])
                  => result[c] = result[d])

\* two callers hold the result of the same call
C5_Witness ==
    /\ pc[1] = "done"
    /\ pc[2] = "done"
    /\ password[1] = password[2]
    /\ dictionary[1] = dictionary[2]
    /\ result[1] # <<>>
    /\ result[1] = result[2]

\* three or more identical consecutive characters somewhere, whatever
\* the character
HasRepeatedRun(s) ==
    \E i \in 1..(Len(s) - 2) : s[i] = s[i + 1] /\ s[i + 1] = s[i + 2]

\* C6: when the repeated-character rule has run, the penalty is 10 if the
\* password holds a run of three or more identical characters, whatever
\* the character, and 0 otherwise.
C6_RepeatRule ==
    \A c \in Callers :
        pc[c] = "sequential" =>
            penalty[c] = IF HasRepeatedRun(password[c]) THEN Bits(10) ELSE 0

\* the 0-based indices whose triplet rises by one twice or falls by one
\* twice
SequentialTriplets(s) ==
    {i \in 0..(Len(s) - 3) :
        \/ s[i + 2] = s[i + 1] + 1 /\ s[i + 3] = s[i + 2] + 1
        \/ s[i + 2] = s[i + 1] - 1 /\ s[i + 3] = s[i + 2] - 1}

\* the whole string is one ascending or one descending run
IsRun(s) ==
    \/ \A i \in 1..(Len(s) - 1) : s[i + 1] = s[i] + 1
    \/ \A i \in 1..(Len(s) - 1) : s[i + 1] = s[i] - 1

\* C7: the sequential rule adds 5 for each index from 0 to length-3 whose
\* triplet rises by one twice or falls by one twice, overlapping triplets
\* each counted, and nothing else; a run of n >= 3 characters adds
\* 5*(n-2), and "abcdef" adds 20.
C7_SequentialRule ==
    [][\A c \in Callers :
           (pc[c] = "sequential" /\ pc'[c] = "keyboard") =>
               /\ penalty'[c] - penalty[c] =
                      Bits(5) * Cardinality(SequentialTriplets(password[c]))
               /\ (Len(password[c]) >= 3 /\ IsRun(password[c]))
                      => penalty'[c] - penalty[c] =
                             Bits(5) * (Len(password[c]) - 2)
               /\ password[c] = <<97, 98, 99, 100, 101, 102>>
                      => penalty'[c] - penalty[c] = Bits(20)]_vars

\* "abcdef" after the sequential rule: four triplets, 20 bits
C7_Witness ==
    /\ pc[1] = "keyboard"
    /\ password[1] = <<97, 98, 99, 100, 101, 102>>
    /\ penalty[1] = Bits(20)

\* qwerty, asdfgh, zxcvbn, 12345, password, admin
SIX_PATTERNS ==
    { <<113, 119, 101, 114, 116, 121>>,
      <<97, 115, 100, 102, 103, 104>>,
      <<122, 120, 99, 118, 98, 110>>,
      <<49, 50, 51, 52, 53>>,
      <<112, 97, 115, 115, 119, 111, 114, 100>>,
      <<97, 100, 109, 105, 110>> }

\* pattern occurs in s as a substring, in any letter case
OccursInAnyCase(pattern, s) ==
    \E a \in 1..(Len(s) - Len(pattern) + 1) :
        EqualIgnoringCase(SubSeq(s, a, a + Len(pattern) - 1), pattern)

PatternsIn(s) == {q \in SIX_PATTERNS : OccursInAnyCase(q, s)}

QWERTY == <<113, 119, 101, 114, 116, 121>>

ADMIN == <<97, 100, 109, 105, 110>>

\* C8: the keyboard rule adds 10 for each of the six patterns occurring in
\* the password in any letter case, once per pattern; the total penalty is
\* the sum of the three rules' contributions and never negative; "qwerty"
\* in any case gives a penalty of at least 10, "qwerty" with "admin" a
\* keyboard contribution of 20.
C8_KeyboardRule ==
    /\ [][\A c \in Callers :
              (pc[c] = "keyboard" /\ pc'[c] = "feedback") =>
                  /\ penalty'[c] - penalty[c] =
                         Bits(10) * Cardinality(PatternsIn(password[c]))
                  /\ {QWERTY, ADMIN} \subseteq PatternsIn(password[c])
                         => penalty'[c] - penalty[c] >= Bits(20)]_vars
    /\ [](\A c \in Callers :
              pc[c] \in {"feedback", "rate", "done"} =>
                  /\ penalty[c] =
                         repeat_penalty(password[c])
                         + Bits(5)
                           * Cardinality(SequentialTriplets(password[c]))
                         + Bits(10) * Cardinality(PatternsIn(password[c]))
                  /\ penalty[c] >= 0
                  /\ OccursInAnyCase(QWERTY, password[c])
                         => penalty[c] >= Bits(10))

\* "QwErTy" with "ADMIN": two patterns in other letter cases, 20 bits
C8_Witness ==
    /\ pc[1] = "feedback"
    /\ ~contains(password[1], QWERTY)
    /\ ~contains(password[1], ADMIN)
    /\ PatternsIn(password[1]) = {QWERTY, ADMIN}
    /\ penalty[1] = Bits(20)

\* the contiguous substrings of s of length 4 and more
LongSubstrings(s) ==
    UNION {{SubSeq(s, a, a + n - 1) : a \in 1..(Len(s) - n + 1)} :
               n \in 4..Len(s)}

\* the dictionary-words message is in caller c's feedback
ScanFoundWord(c) ==
    \E k \in 1..Len(feedback[c]) : feedback[c][k] = DICTIONARY_WORDS

\* the whole lowercased password, or one of its substrings of length >= 4,
\* is a word of caller c's dictionary
HasDictionaryWord(c) ==
    \/ lower(password[c]) \in dictionary[c].words
    \/ LongSubstrings(lower(password[c])) \cap dictionary[c].words # {}

RECURSIVE Sum(_, _)
Sum(f, S) ==
    IF S = {} THEN 0
    ELSE LET x == CHOOSE x \in S : TRUE IN f[x] + Sum(f, S \ {x})

\* the four classes and what the claim says each adds to the pool
CLASSES == {"lowercase", "uppercase", "digits", "punctuation"}

ClassSet(k) ==
    CASE k = "lowercase" -> LOWERCASE
      [] k = "uppercase" -> UPPERCASE
      [] k = "digits" -> DIGITS
      [] k = "punctuation" -> PUNCTUATION

CONTRIBUTION ==
    [k \in CLASSES |->
        CASE k = "lowercase" -> 26
          [] k = "uppercase" -> 26
          [] k = "digits" -> 10
          [] k = "punctuation" -> 22]

ClassesIn(s) == {k \in CLASSES : \E i \in 1..Len(s) : s[i] \in ClassSet(k)}

\* C10: the pool is the sum, over the classes present, of 26, 26, 10 and
\* 22, and the contribution of each class present is the number of
\* characters that class recognizes (the punctuation class holding exactly
\* 22 symbols).
C10_PoolIsClassSizes ==
    \A c \in Callers :
        pc[c] \notin {"idle", "base"} =>
            /\ pool[c] = Sum(CONTRIBUTION, ClassesIn(password[c]))
            /\ \A k \in ClassesIn(password[c]) :
                   CONTRIBUTION[k] = Cardinality(ClassSet(k))

====
